---- MODULE Spec2Model ----
(***************************************************************************)
(* Model of the STM32 watchdog driver SWDT.hpp (SWDT<C> base class and the *)
(* SWDT_IWDG driver).  The IWDG register block is modelled as a record     *)
(* that keeps the last value stored in KR, PR and RLR, the hardware        *)
(* "counter running" latch, and the program-order log of register stores   *)
(* of the operation in progress.                                           *)
(*                                                                         *)
(* Spec    : every driver call is one step (single execution context).     *)
(* SpecIrq : setTimeout() of the main context runs store by store and an   *)
(*           interrupt handler may call feed() or start() in between.      *)
(***************************************************************************)
EXTENDS Integers, Sequences, FiniteSets, TLC

VARIABLES freq,        \* SWDT::freq of the driver object
          alive,       \* the driver object is within its lifetime
          IWDG,        \* register block: KR, PR, RLR, armed, writes
          lastOp,      \* last driver call of the main context
          timeout,     \* argument of the most recent setTimeout call
          usedFreq,    \* freq read by the most recent reload computation
          divZero,     \* that computation divided by zero
          fault,       \* a division trap was taken
          freqSet,     \* setInputFreq was called on the current object
          startCalled, \* start() was called since reset
          pc,          \* SpecIrq: position of the main context in setTimeout
          value,       \* SpecIrq: local 'value' of setReloadValue
          irqAt,       \* SpecIrq: log positions stored by the interrupt
          irqCount     \* SpecIrq: interrupts taken since setTimeout began

vars == <<freq, alive, IWDG, lastOp, timeout, usedFreq, divZero, fault,
          freqSet, startCalled, pc, value, irqAt, irqCount>>

irqVars == <<pc, value, irqAt, irqCount>>

----------------------------------------------------------------------------
(* Bounds of the model *)

MaxTimeoutIdx == 3
MaxFreqIdx == 4
MaxIrq == 2

\* Upper end of the modelled uint32_t range: the largest integer the model
\* checker represents.  Only divisions and comparisons are applied to
\* values of this type, so the values above it behave like this one.
BigU32 == 2147483647

\* timeouts in ms: 0, multiples of 8190 (24570 / 6 = 4095), 1, 1000, the top of the range
Timeouts == {i * 8190 : i \in 0..MaxTimeoutIdx} \cup {1, 1000, BigU32}

\* input frequencies in Hz: around the 256 boundary, the default, around
\* the 256 * 1000 boundary, the top of the range
Freqs == {i * 128 : i \in 0..MaxFreqIdx} \cup {40000, 256000, 256256, BigU32}

----------------------------------------------------------------------------
(* Constants of SWDT_IWDG *)

reloadKey == 43690       \* 0xAAAA
accessKey == 21845       \* 0x5555
startKey == 52428        \* 0xCCCC
maxReloadValue == 4095

Div128 == 5
Div256_low == Div128
Div256 == 6

freqDefault == 1

----------------------------------------------------------------------------
(* Register block *)

\* state of the peripheral after reset, before any driver call
ResetIWDG == [KR |-> 0, PR |-> 0, RLR |-> 4095, armed |-> FALSE, writes |-> <<>>]

\* IWDG->KR = key; the start key starts the counter, which cannot be stopped
writeKR(h, key) ==
    [h EXCEPT !.KR = key,
              !.armed = @ \/ (key = startKey),
              !.writes = Append(@, <<"KR", key>>)]

\* IWDG->PR = (uint8_t)prescaler
writePR(h, prescaler) ==
    [h EXCEPT !.PR = prescaler % 256,
              !.writes = Append(@, <<"PR", prescaler % 256>>)]

\* IWDG->RLR = value
writeRLR(h, v) ==
    [h EXCEPT !.RLR = v,
              !.writes = Append(@, <<"RLR", v>>)]

\* a new driver call starts a new program-order log
newCall(h) == [h EXCEPT !.writes = <<>>]

----------------------------------------------------------------------------
(* SWDT_IWDG methods *)

\* SML::limit<uint32_t>(value, min, max): clamps value into [min, max]
limit(v, min, max) == IF v < min THEN min ELSE IF v > max THEN max ELSE v

enableAccess_wrongKey(h) == writeKR(h, reloadKey)
enableAccess(h) == writeKR(h, accessKey)

init_skipped(f) == f
init(f) == 40000

start_wrongKey(h) == writeKR(h, accessKey)
start(h) == writeKR(h, startKey)

feed_startKey(h) == writeKR(h, startKey)
feed_reconfigures(h) == writeRLR(writeKR(h, reloadKey), maxReloadValue)
feed(h) == writeKR(h, reloadKey)

setPrescaler_noUnlock(h, prescaler) == writePR(h, prescaler)
setPrescaler(h, prescaler) == writePR(enableAccess(h), prescaler)

setReloadValue_noFloor(h, v) == writeRLR(enableAccess(h), limit(v, 0, maxReloadValue))
setReloadValue(h, v) == writeRLR(enableAccess(h), limit(v, 1, maxReloadValue))

\* SWDT::setInputFreq(value): freq = value
setInputFreq(f, v) == v

\* Unsigned division.  Division by zero is undefined behaviour: the build
\* either traps or yields some quotient (0 on Cortex-M without DIV_0_TRP,
\* all ones elsewhere).
DivZeroQuotients == {0, BigU32}

Quot(a, b) == IF b = 0 THEN DivZeroQuotients ELSE {a \div b}

ReloadArgs_ticksPerMs(t, f) ==
    UNION { Quot(t, m) : m \in Quot(f \div 256, 1000) }

\* timeout / (1000 / (freq / 256)): the values the expression can yield
ReloadArgs(t, f) ==
    UNION { Quot(t, m) : m \in Quot(1000, f \div 256) }

\* some evaluation of the expression divides by zero
DivByZero(t, f) ==
    \/ f \div 256 = 0
    \/ 0 \in Quot(1000, f \div 256)

\* outcomes of setTimeout(t) with input frequency f on register block h
setTimeout(h, t, f) ==
    LET h1 == setPrescaler(h, Div256)
    IN  { [hw |-> setReloadValue(h1, v), fault |-> FALSE] : v \in ReloadArgs(t, f) }
        \cup
        (IF DivByZero(t, f) THEN { [hw |-> h1, fault |-> TRUE] } ELSE {})

----------------------------------------------------------------------------
(* Single-context operations *)

\* SWDT_IWDG object(t): freq = 1; init(); setTimeout(t)
Constructed(h, t) == setTimeout(newCall(h), t, init(freqDefault))

Init ==
    /\ \E t \in Timeouts : \E o \in Constructed(ResetIWDG, t) :
          /\ IWDG = o.hw
          /\ fault = o.fault
          /\ timeout = t
          /\ divZero = DivByZero(t, init(freqDefault))
    /\ freq = init(freqDefault)
    /\ usedFreq = init(freqDefault)
    /\ alive = TRUE
    /\ lastOp = "ctor"
    /\ freqSet = FALSE
    /\ startCalled = FALSE
    /\ pc = "idle"
    /\ value = 0
    /\ irqAt = {}
    /\ irqCount = 0

Ready == alive /\ ~fault /\ pc = "idle"

Start ==
    /\ Ready
    /\ IWDG' = start(newCall(IWDG))
    /\ lastOp' = "start"
    /\ startCalled' = TRUE
    /\ UNCHANGED <<freq, alive, timeout, usedFreq, divZero, fault, freqSet>>
    /\ UNCHANGED irqVars

Feed ==
    /\ Ready
    /\ IWDG' = feed(newCall(IWDG))
    /\ lastOp' = "feed"
    /\ UNCHANGED <<freq, alive, timeout, usedFreq, divZero, fault, freqSet,
                   startCalled>>
    /\ UNCHANGED irqVars

SetTimeout ==
    /\ Ready
    /\ \E t \in Timeouts : \E o \in setTimeout(newCall(IWDG), t, freq) :
          /\ IWDG' = o.hw
          /\ fault' = o.fault
          /\ timeout' = t
          /\ divZero' = DivByZero(t, freq)
    /\ usedFreq' = freq
    /\ lastOp' = "setTimeout"
    /\ UNCHANGED <<freq, alive, freqSet, startCalled>>
    /\ UNCHANGED irqVars

SetInputFreq ==
    /\ Ready
    /\ \E f \in Freqs : freq' = setInputFreq(freq, f)
    /\ freqSet' = TRUE
    /\ lastOp' = "setInputFreq"
    /\ IWDG' = newCall(IWDG)
    /\ UNCHANGED <<alive, timeout, usedFreq, divZero, fault, startCalled>>
    /\ UNCHANGED irqVars

\* ~SWDT(): freq = 1; the peripheral is left as it is
Destroy ==
    /\ Ready
    /\ alive' = FALSE
    /\ freq' = 1
    /\ lastOp' = "dtor"
    /\ IWDG' = newCall(IWDG)
    /\ UNCHANGED <<timeout, usedFreq, divZero, fault, freqSet, startCalled>>
    /\ UNCHANGED irqVars

\* a new driver object is constructed on the same peripheral
Construct ==
    /\ ~alive /\ ~fault /\ pc = "idle"
    /\ \E t \in Timeouts : \E o \in Constructed(IWDG, t) :
          /\ IWDG' = o.hw
          /\ fault' = o.fault
          /\ timeout' = t
          /\ divZero' = DivByZero(t, init(freqDefault))
    /\ freq' = init(freqDefault)
    /\ usedFreq' = init(freqDefault)
    /\ alive' = TRUE
    /\ freqSet' = FALSE
    /\ lastOp' = "ctor"
    /\ UNCHANGED startCalled
    /\ UNCHANGED irqVars

Next ==
    \/ Start
    \/ Feed
    \/ SetTimeout
    \/ SetInputFreq
    \/ Destroy
    \/ Construct

Spec == Init /\ [][Next]_vars

----------------------------------------------------------------------------
(* Two execution contexts: setTimeout() of the main context, one register *)
(* store per step, and an interrupt handler calling feed() or start()     *)

MainCall ==
    /\ Ready
    /\ \E t \in Timeouts : timeout' = t
    /\ IWDG' = newCall(IWDG)
    /\ lastOp' = "setTimeout"
    /\ pc' = "pr_unlock"
    /\ irqAt' = {}
    /\ irqCount' = 0
    /\ UNCHANGED <<freq, alive, usedFreq, divZero, fault, freqSet,
                   startCalled, value>>

\* setPrescaler: enableAccess()
MainUnlockPR ==
    /\ pc = "pr_unlock"
    /\ IWDG' = enableAccess(IWDG)
    /\ pc' = "pr_write"
    /\ UNCHANGED <<freq, alive, lastOp, timeout, usedFreq, divZero, fault,
                   freqSet, startCalled, value, irqAt, irqCount>>

\* setPrescaler: IWDG->PR = (uint8_t)prescaler
MainWritePR ==
    /\ pc = "pr_write"
    /\ IWDG' = writePR(IWDG, Div256)
    /\ pc' = "compute"
    /\ UNCHANGED <<freq, alive, lastOp, timeout, usedFreq, divZero, fault,
                   freqSet, startCalled, value, irqAt, irqCount>>

\* evaluation of timeout / (1000 / (freq / 256))
MainCompute ==
    /\ pc = "compute"
    /\ usedFreq' = freq
    /\ divZero' = DivByZero(timeout, freq)
    /\ \/ /\ \E v \in ReloadArgs(timeout, freq) : value' = v
          /\ pc' = "limit"
          /\ UNCHANGED fault
       \/ /\ DivByZero(timeout, freq)
          /\ fault' = TRUE
          /\ pc' = "trap"
          /\ UNCHANGED value
    /\ UNCHANGED <<freq, alive, IWDG, lastOp, timeout, freqSet, startCalled,
                   irqAt, irqCount>>

\* setReloadValue: SML::limit(value, 1, maxReloadValue)
MainLimit ==
    /\ pc = "limit"
    /\ value' = limit(value, 1, maxReloadValue)
    /\ pc' = "rlr_unlock"
    /\ UNCHANGED <<freq, alive, IWDG, lastOp, timeout, usedFreq, divZero,
                   fault, freqSet, startCalled, irqAt, irqCount>>

\* setReloadValue: enableAccess()
MainUnlockRLR ==
    /\ pc = "rlr_unlock"
    /\ IWDG' = enableAccess(IWDG)
    /\ pc' = "rlr_write"
    /\ UNCHANGED <<freq, alive, lastOp, timeout, usedFreq, divZero, fault,
                   freqSet, startCalled, value, irqAt, irqCount>>

\* setReloadValue: IWDG->RLR = value
MainWriteRLR ==
    /\ pc = "rlr_write"
    /\ IWDG' = writeRLR(IWDG, value)
    /\ pc' = "idle"
    /\ UNCHANGED <<freq, alive, lastOp, timeout, usedFreq, divZero, fault,
                   freqSet, startCalled, value, irqAt, irqCount>>

MainSetInputFreq ==
    /\ Ready
    /\ \E f \in Freqs : freq' = setInputFreq(freq, f)
    /\ freqSet' = TRUE
    /\ lastOp' = "setInputFreq"
    /\ IWDG' = newCall(IWDG)
    /\ irqAt' = {}
    /\ irqCount' = 0
    /\ UNCHANGED <<alive, timeout, usedFreq, divZero, fault, startCalled,
                   pc, value>>

IrqEnabled == alive /\ ~fault /\ irqCount < MaxIrq

IrqFeed ==
    /\ IrqEnabled
    /\ IWDG' = feed(IWDG)
    /\ irqAt' = irqAt \cup {Len(IWDG'.writes)}
    /\ irqCount' = irqCount + 1
    /\ UNCHANGED <<freq, alive, lastOp, timeout, usedFreq, divZero, fault,
                   freqSet, startCalled, pc, value>>

IrqStart ==
    /\ IrqEnabled
    /\ IWDG' = start(IWDG)
    /\ irqAt' = irqAt \cup {Len(IWDG'.writes)}
    /\ irqCount' = irqCount + 1
    /\ startCalled' = TRUE
    /\ UNCHANGED <<freq, alive, lastOp, timeout, usedFreq, divZero, fault,
                   freqSet, pc, value>>

NextIrq ==
    \/ MainCall
    \/ MainUnlockPR
    \/ MainWritePR
    \/ MainCompute
    \/ MainLimit
    \/ MainUnlockRLR
    \/ MainWriteRLR
    \/ MainSetInputFreq
    \/ IrqFeed
    \/ IrqStart

SpecIrq == Init /\ [][NextIrq]_vars

----------------------------------------------------------------------------
(* Properties *)

W == IWDG.writes

IsConfig(w, i) == w[i][1] \in {"PR", "RLR"}

\* position of the most recent KR store before position i (0: none)
LastKR(w, i) ==
    LET S == {j \in 1..(i - 1) : w[j][1] = "KR"}
    IN  IF S = {} THEN 0 ELSE CHOOSE j \in S : \A k \in S : k <= j

\* the store at position i is issued while the last key is not the unlock key
Locked(w, i) == LastKR(w, i) = 0 \/ w[LastKR(w, i)][2] # 21845

ConfigCall == lastOp \in {"ctor", "setTimeout"}

\* C1: every value stored in RLR, and RLR in every state after
\* construction, lies in [1, 4095]; timeout 0 yields 1 and an over-large
\* timeout yields 4095.
C1_ReloadInRange ==
    /\ IWDG.RLR \in 1..4095
    /\ \A i \in 1..Len(W) : W[i][1] = "RLR" => W[i][2] \in 1..4095
    /\ (ConfigCall /\ ~divZero /\ timeout = 0) => IWDG.RLR = 1
    /\ (ConfigCall /\ ~divZero /\ timeout = BigU32) => IWDG.RLR = 4095

C1_Witness ==
    /\ lastOp = "setTimeout" /\ ~divZero
    /\ timeout = 0 /\ IWDG.RLR = 1
    /\ W[Len(W)] = <<"RLR", 1>>

\* C2: in single-context use every PR store and every RLR store of a
\* setTimeout call (the constructor's included) directly follows a store of
\* the unlock key 0x5555 to KR, and the PR store precedes the RLR store.
C2_UnlockBeforeConfig ==
    ConfigCall =>
        /\ \A i \in 1..Len(W) : IsConfig(W, i) =>
               /\ ~Locked(W, i)
               /\ LastKR(W, i) = i - 1
        /\ \A i, j \in 1..Len(W) : (W[i][1] = "PR" /\ W[j][1] = "RLR") => i < j
        /\ \E i \in 1..Len(W) : W[i][1] = "PR"
        /\ ~fault => \E i \in 1..Len(W) : W[i][1] = "RLR"

C2_Witness ==
    /\ lastOp = "setTimeout" /\ ~fault
    /\ Len(W) = 4
    /\ W[1] = <<"KR", 21845>> /\ W[2][1] = "PR"
    /\ W[3] = <<"KR", 21845>> /\ W[4][1] = "RLR"

\* C3: once armed the watchdog stays armed under every further call and
\* after destruction; start() stores the start key 0xCCCC and a repeated
\* start() leaves the state as it was after the first.
C3_ArmedAbsorbing ==
    [][ /\ IWDG.armed => IWDG'.armed
        /\ lastOp' = "start" =>
              /\ IWDG'.armed
              /\ IWDG'.KR = 52428
              /\ IWDG'.writes = << <<"KR", 52428>> >>
        /\ (lastOp = "start" /\ lastOp' = "start") => UNCHANGED vars
      ]_vars

C3_Witness == IWDG.armed /\ lastOp = "dtor" /\ ~alive

\* C4: the watchdog is idle until start() is first called: only start()
\* stores the start key; feed() before start() completes without error
\* and does not arm.
C4_IdleUntilStart ==
    /\ IWDG.armed <=> startCalled
    /\ (\E i \in 1..Len(W) : W[i] = <<"KR", 52428>>) => lastOp = "start"
    /\ lastOp = "feed" => (~fault /\ W = << <<"KR", 43690>> >>)
    /\ lastOp = "ctor" /\ ~startCalled => ~IWDG.armed

C4_Witness == lastOp = "feed" /\ ~startCalled /\ ~IWDG.armed

\* C5: every operation is infallible: for every timeout and every recorded
\* input frequency setTimeout completes without a fault, without a division
\* by zero, and stores a clamped reload value.
C5_Infallible ==
    /\ ~fault
    /\ ~divZero
    /\ lastOp = "setTimeout" =>
          (Len(W) > 0 /\ W[Len(W)][1] = "RLR" /\ W[Len(W)][2] \in 1..4095)

\* C6: when setInputFreq is never called the input frequency is 40000 Hz at
\* every reload computation, the constructor's included (never 1).
C6_DefaultFreq ==
    (alive /\ ~freqSet) =>
        /\ freq = 40000
        /\ ConfigCall =>
              /\ usedFreq = 40000
              /\ ~divZero /\ ~fault
              /\ IWDG.RLR = limit(timeout \div 6, 1, 4095)

C6_Witness ==
    /\ alive /\ ~freqSet /\ lastOp = "ctor"
    /\ timeout = 1000 /\ IWDG.RLR = 166

\* reference computation of the claim: f / 256, then / 1000, then t / that;
\* -1 where it has no value
SpecReload(t, f) ==
    LET effectiveTickFrequencyHz == f \div 256
        ticksPerMillisecond == effectiveTickFrequencyHz \div 1000
    IN  IF ticksPerMillisecond = 0 THEN -1
        ELSE limit(t \div ticksPerMillisecond, 1, 4095)

\* C7 as stated: the value stored in RLR equals the reference computation
\* t / ((f / 256) / 1000) clamped to [1, 4095].
C7_TicksPerMillisecond ==
    (ConfigCall /\ ~fault) => IWDG.RLR = SpecReload(timeout, usedFreq)

\* C7 amended: the value stored in RLR is t / (1000 / (f / 256)) clamped to
\* [1, 4095] when 256 <= f <= 256255; for every other f the computation
\* divides by zero and either traps before RLR is stored or stores some
\* value of [1, 4095].
C7_MillisecondsPerTick ==
    ConfigCall =>
        IF usedFreq \in 256..256255
        THEN /\ ~divZero /\ ~fault
             /\ IWDG.RLR = limit(timeout \div (1000 \div (usedFreq \div 256)), 1, 4095)
             /\ W[Len(W)] = <<"RLR", IWDG.RLR>>
        ELSE /\ divZero
             /\ \/ fault /\ \A i \in 1..Len(W) : W[i][1] # "RLR"
                \/ ~fault /\ W[Len(W)] = <<"RLR", IWDG.RLR>> /\ IWDG.RLR \in 1..4095

C7_Witness ==
    /\ lastOp = "setTimeout" /\ ~fault
    /\ usedFreq = 512 /\ timeout = 8190 /\ IWDG.RLR = 16

\* C8: every setTimeout call stores Div256 (0b110) in PR whatever the
\* timeout and the frequency, and PR is 0b110 in every state after
\* construction.
C8_PrescalerMax ==
    /\ IWDG.PR = 6
    /\ \A i \in 1..Len(W) : W[i][1] = "PR" => W[i][2] = 6
    /\ ConfigCall => \E i \in 1..Len(W) : W[i] = <<"PR", 6>>

C8_Witness ==
    /\ lastOp = "setTimeout" /\ usedFreq # 40000 /\ timeout # 1000
    /\ W[2] = <<"PR", 6>> /\ IWDG.PR = 6

\* C9: with an interrupt-context feed() or start() between the stores of a
\* main-context setTimeout(), PR or RLR can be stored while the most recent
\* KR store is not the unlock key; every such store follows a KR store of
\* the interrupt context, which nothing in the driver excludes.
C9_RaceByInterrupt ==
    \A i \in 1..Len(W) : (IsConfig(W, i) /\ Locked(W, i)) =>
        /\ LastKR(W, i) \in irqAt
        /\ \E j \in 1..(LastKR(W, i) - 1) : W[j] = <<"KR", 21845>> /\ j \notin irqAt

C9_Witness ==
    /\ lastOp = "setTimeout"
    /\ \E i \in 1..Len(W) : W[i][1] = "PR" /\ Locked(W, i)
    /\ \E i \in 1..Len(W) : W[i][1] = "RLR" /\ Locked(W, i)

\* C10: setInputFreq stores in no register and leaves KR, PR, RLR and the
\* armed state as they were; feed() and start() store in KR only and leave
\* PR, RLR and the recorded frequency as they were.
C10_Frame ==
    [][ /\ lastOp' = "setInputFreq" =>
              /\ IWDG'.KR = IWDG.KR /\ IWDG'.PR = IWDG.PR
              /\ IWDG'.RLR = IWDG.RLR /\ IWDG'.armed = IWDG.armed
              /\ IWDG'.writes = << >>
              /\ usedFreq' = usedFreq
        /\ lastOp' \in {"feed", "start"} =>
              /\ IWDG'.PR = IWDG.PR /\ IWDG'.RLR = IWDG.RLR
              /\ freq' = freq
              /\ \A i \in 1..Len(IWDG'.writes) : IWDG'.writes[i][1] = "KR"
      ]_vars

C10_Witness ==
    /\ lastOp = "setInputFreq" /\ ~divZero
    /\ freq = 512 /\ usedFreq = 40000 /\ timeout = 8190
    /\ IWDG.RLR = 1365

====
